---- MODULE Spec2Model ----
(***************************************************************************)
(* The Solana monitor of gitclaw (src/agents/solana_monitor.py) with the   *)
(* part of the chain/market client it calls (src/agents/solana_query.py). *)
(*                                                                         *)
(* Python values are tagged records: None, numbers, strings (sequences of  *)
(* characters), lists (sequences) and dicts (functions from keys).  JSON   *)
(* text is a tagged tree of its own, so that json.dumps / json.loads are   *)
(* conversions between two representations.  Numbers are integers: every   *)
(* balance and price the model draws is integral, and a percentage test    *)
(* abs((c - p) / p * 100) > T is evaluated exactly (no float rounding).    *)
(***************************************************************************)
EXTENDS Integers, Sequences, FiniteSets, TLC

VARIABLES
    now,              \* the UTC clock, in minutes (non-decreasing)
    store,            \* SNAPSHOTS_DIR: file name -> JSON text
    nsweeps,          \* sweeps started so far
    pc,               \* position of each sweep process in main()
    wallets,          \* main: wallets (the watchlist read from the environment)
    tokens,           \* main: tokens
    wallet_data,      \* check_wallets: results
    price_data,       \* check_prices: results
    current_snapshot, \* main: current_snapshot
    previous,         \* main: previous
    alerts,           \* main: alerts
    idx,              \* the position of the running loop in its watchlist
    wallet_failed,    \* history: for each entry of wallet_data, did its balance query fail
    saved,            \* history: has this sweep called save_snapshot
    loaded_before_save, \* history: was load_previous_snapshot called before this sweep saved
    overwritten,      \* history: has save_snapshot replaced a snapshot by another text
    raw_report,       \* main: raw_report, the outcome of format_report
    saves,            \* history: the calls of save_snapshot this sweep has made
    calls,            \* history: the upstream calls made for each watchlist position
    response,         \* main: response, the text that is posted, archived and printed
    alert_store,      \* ALERTS_DIR: file name -> text
    posted,           \* history: has this sweep passed its posting step, or failed in it
    archived,         \* history: has this sweep written to ALERTS_DIR
    persisted,        \* history: the snapshot last handed to save_snapshot
    started,          \* history: the processes of the sweeps, in the order they started
    overlapped,       \* history: has a sweep started while another was running
    dcur, dprev, dres, dpc,  \* detect_changes applied to drawn snapshots
    kin, kout, kpc,          \* check_wallets / check_prices applied to a drawn watchlist
    tin, tout, tpc           \* the figure of handle_network for a drawn performance sample

vars == <<now, store, nsweeps, pc, wallets, tokens, wallet_data, price_data,
          current_snapshot, previous, alerts, idx, wallet_failed, saved,
          loaded_before_save, overwritten, raw_report, saves, calls, response, alert_store,
          posted, archived, persisted, started, overlapped, dcur, dprev, dres, dpc,
          kin, kout, kpc, tin, tout, tpc>>

sweepVars == <<now, store, nsweeps, pc, wallets, tokens, wallet_data, price_data,
               current_snapshot, previous, alerts, idx, wallet_failed, saved,
               loaded_before_save, overwritten, raw_report, saves, calls, response,
               alert_store, posted, archived, persisted, started, overlapped>>

\* what the steps of a sweep before save_snapshot leave alone
tailVars == <<response, alert_store, posted, archived, persisted, started, overlapped>>

detectVars == <<dcur, dprev, dres, dpc>>

checkVars == <<kin, kout, kpc>>

tpsVars == <<tin, tout, tpc>>

\* what the steps of a sweep leave alone
harnessVars == <<detectVars, checkVars, tpsVars>>

-----------------------------------------------------------------------------
(* Bounds *)

MaxSweeps == 2      \* sweeps the scheduler starts
MaxMinute == 1      \* the clock runs over the minutes 0..MaxMinute
MaxObs == 2         \* observations in a drawn snapshot
MaxBalance == 22    \* largest balance drawn for a single-wallet comparison
MaxPrice == 12      \* largest price drawn for a single-token comparison
MaxWatch == 2       \* items in a drawn watchlist
MaxTx == 9          \* largest transaction count of a drawn performance sample
MaxPeriod == 4      \* longest period of a drawn performance sample, in seconds

Procs == {1, 2}
Sequential == {1}   \* at most one sweep instance runs at a time

-----------------------------------------------------------------------------
(* Python values *)

PyNone == [t |-> "None"]
PyNum(n) == [t |-> "num", v |-> n]
PyStr(s) == [t |-> "str", v |-> s]
PyList(s) == [t |-> "list", v |-> s]
PyDict(f) == [t |-> "dict", v |-> f]

\* d.get(k, dflt)
Get(d, k, dflt) == IF k \in DOMAIN d.v THEN d.v[k] ELSE dflt

\* bool(x)
Truthy(x) ==
    CASE x.t = "None" -> FALSE
      [] x.t = "num" -> x.v # 0
      [] OTHER -> x.v # <<>>

\* x or y
PyOr(x, y) == IF Truthy(x) THEN x ELSE y

\* the outcome of a call: a value, or an exception
Ret(v) == [raised |-> FALSE, val |-> v]
Raise(e) == [raised |-> TRUE, exc |-> e]

Abs(n) == IF n < 0 THEN -n ELSE n

Digits == <<"0", "1", "2", "3", "4", "5", "6", "7", "8", "9">>

DigitVal(c) == CHOOSE d \in 0..9 : Digits[d + 1] = c

IsDigit(c) == \E d \in 0..9 : Digits[d + 1] = c

RECURSIVE DigitsVal(_)
DigitsVal(s) ==
    IF s = <<>> THEN 0 ELSE DigitsVal(SubSeq(s, 1, Len(s) - 1)) * 10 + DigitVal(s[Len(s)])

AllDigits(s) == s # <<>> /\ \A i \in 1..Len(s) : IsDigit(s[i])

\* float(x), for the numerals [-]digits; any other string is a ValueError
PyFloat(x) ==
    CASE x.t = "num" -> Ret(x.v)
      [] x.t = "str" ->
            IF AllDigits(x.v) THEN Ret(DigitsVal(x.v))
            ELSE IF x.v # <<>> /\ x.v[1] = "-" /\ AllDigits(Tail(x.v))
                 THEN Ret(-DigitsVal(Tail(x.v)))
                 ELSE Raise("ValueError")
      [] OTHER -> Raise("TypeError")

\* str(n) of a natural below 100
NumStr(n) == IF n < 10 THEN <<Digits[n + 1]>> ELSE <<Digits[(n \div 10) + 1], Digits[(n % 10) + 1]>>

-----------------------------------------------------------------------------
(* JSON *)

JsonInvalid == [j |-> "invalid"]     \* a body that is not JSON
JNull == [j |-> "null"]
JNum(n) == [j |-> "number", v |-> n]
JStr(s) == [j |-> "string", v |-> s]
JArr(s) == [j |-> "array", v |-> s]
JObj(f) == [j |-> "object", v |-> f]

\* json.dumps that leaves out the members whose value is None
RECURSIVE DumpsSkipNone(_)
DumpsSkipNone(x) ==
    CASE x.t = "None" -> JNull
      [] x.t = "num" -> JNum(x.v)
      [] x.t = "str" -> JStr(x.v)
      [] x.t = "list" -> JArr([i \in DOMAIN x.v |-> DumpsSkipNone(x.v[i])])
      [] x.t = "dict" -> JObj([k \in {m \in DOMAIN x.v : x.v[m] # PyNone} |->
                                  DumpsSkipNone(x.v[k])])

RECURSIVE Dumps(_)
Dumps(x) ==
    CASE x.t = "None" -> JNull
      [] x.t = "num" -> JNum(x.v)
      [] x.t = "str" -> JStr(x.v)
      [] x.t = "list" -> JArr([i \in DOMAIN x.v |-> Dumps(x.v[i])])
      [] x.t = "dict" -> JObj([k \in DOMAIN x.v |-> Dumps(x.v[k])])

RECURSIVE Loads(_)
Loads(y) ==
    CASE y.j = "null" -> PyNone
      [] y.j = "number" -> PyNum(y.v)
      [] y.j = "string" -> PyStr(y.v)
      [] y.j = "array" -> PyList([i \in DOMAIN y.v |-> Loads(y.v[i])])
      [] y.j = "object" -> PyDict([k \in DOMAIN y.v |-> Loads(y.v[k])])

-----------------------------------------------------------------------------
(* solana_query.py: the client *)

LAMPORTS_PER_SOL == 1000000000

\* what urlopen + resp.read() give: a transport failure, or a body
HttpError(msg) == [http |-> "error", msg |-> msg]
HttpBody(text) == [http |-> "ok", body |-> text]

fetch_json(reply) ==
    IF reply.http = "error" THEN PyDict([error |-> PyStr(<<reply.msg>>)])
    ELSE IF reply.body = JsonInvalid THEN PyDict([error |-> PyStr(<<"Expecting value">>)])
    ELSE Loads(reply.body)

dex_search(reply) == fetch_json(reply)

rpc_call(reply) == fetch_json(reply)

\* lamports / LAMPORTS_PER_SOL is exact here: every lamports drawn is a multiple
get_balance(reply) ==
    LET result == rpc_call(reply) IN
    IF result.t # "dict" THEN Raise("AttributeError")
    ELSE LET r == Get(result, "result", PyDict(<<>>)) IN
         IF r.t # "dict" THEN Raise("AttributeError")
         ELSE LET lamports == Get(r, "value", PyNum(0)) IN
              IF lamports.t # "num" THEN Raise("TypeError")
              ELSE Ret(PyNum(lamports.v \div LAMPORTS_PER_SOL))

\* a // b on Python integers: the floor of the quotient
PyFloorDiv(a, b) ==
    IF b = 0 THEN Raise("ZeroDivisionError")
    ELSE IF b > 0 THEN Ret(a \div b)
    ELSE Ret((0 - a) \div (0 - b))

\* if period >= 0
PeriodNonNegative(period) == period >= 0

\* if period > 0
PeriodPositive(period) == period > 0

\* handle_network: the TPS figure of one performance sample
sample_tps(sample) ==
    LET txs == Get(sample, "numTransactions", PyNum(0))
        period == Get(sample, "samplePeriodSecs", PyNum(1))
    IN  IF period.t # "num" THEN Raise("TypeError")
        ELSE IF ~PeriodPositive(period.v) THEN Ret(0)
        ELSE IF txs.t # "num" THEN Raise("TypeError")
        ELSE PyFloorDiv(txs.v, period.v)

-----------------------------------------------------------------------------
(* solana_monitor.py: the snapshot store *)

\* datetime.now(timezone.utc).isoformat(): an instant far finer than the minutes
\* the clock counts, which no code reads back; it is kept as an opaque string
IsoFormat(clock) == PyStr(<<"T">>)

\* strftime("%Y%m%d-%H%M") in f"snapshot-{ts}.json": a fixed-width name, so the
\* lexicographic order of the names is the order of the minutes they spell
SnapshotName(clock) == clock

\* sorted(SNAPSHOTS_DIR.glob("*.json"))[0]
FirstFile(names) == CHOOSE n \in names : \A m \in names : n <= m

\* sorted(SNAPSHOTS_DIR.glob("*.json"))[-1]
LastFile(names) == CHOOSE n \in names : \A m \in names : m <= n

\* load_previous_snapshot without its test for an empty directory
load_previous_snapshot_unguarded(st) ==
    IF DOMAIN st # {} THEN Ret(Loads(st[LastFile(DOMAIN st)]))
    ELSE Raise("IndexError")

load_previous_snapshot(st) ==
    IF DOMAIN st # {} THEN Ret(Loads(st[LastFile(DOMAIN st)]))
    ELSE Ret(PyDict(<<>>))

\* write_text truncates: the file of that name held a text, which is gone
Replaces(st, name, st2) == name \in DOMAIN st /\ st[name] # st2[name]

\* path.write_text(json.dumps(data, indent=2) + "\n")
WriteText(st, name, text) ==
    [n \in DOMAIN st \cup {name} |-> IF n = name THEN text ELSE st[n]]

\* a save that leaves a file of the same minute as it is
save_snapshot_keep_existing(st, clock, data) ==
    IF SnapshotName(clock) \in DOMAIN st THEN st
    ELSE WriteText(st, SnapshotName(clock), Dumps(data))

save_snapshot(st, clock, data) == WriteText(st, SnapshotName(clock), Dumps(data))

-----------------------------------------------------------------------------
(* solana_monitor.py: the watchlists *)

\* json.loads(os.environ.get("SOLANA_WALLETS", "[]")), [] on a JSONDecodeError
get_watched_wallets(env) ==
    IF env = JsonInvalid THEN PyList(<<>>) ELSE Loads(env)

\* t.strip(): the blank " " is the only whitespace drawn
RECURSIVE LStrip(_)
LStrip(s) == IF s # <<>> /\ s[1] = " " THEN LStrip(Tail(s)) ELSE s

RECURSIVE RStrip(_)
RStrip(s) == IF s # <<>> /\ s[Len(s)] = " " THEN RStrip(SubSeq(s, 1, Len(s) - 1)) ELSE s

Strip(s) == RStrip(LStrip(s))

\* t.upper(), one letter run at a time
UpperRun(c) ==
    CASE c = "sol" -> "SOL"
      [] c = "bonk" -> "BONK"
      [] OTHER -> c

Upper(s) == [i \in DOMAIN s |-> UpperRun(s[i])]

\* tokens.split(","): the fields between the commas
RECURSIVE Split(_, _)
Split(s, field) ==
    IF s = <<>> THEN <<field>>
    ELSE IF s[1] = "," THEN <<field>> \o Split(Tail(s), <<>>)
    ELSE Split(Tail(s), Append(field, s[1]))

\* [t.strip().upper() for t in tokens.split(",") if t.strip()]
get_watchlist_tokens(env) ==
    LET fields == Split(env, <<>>)
        kept == SelectSeq(fields, LAMBDA f : Strip(f) # <<>>)
    IN [i \in DOMAIN kept |-> PyStr(Upper(Strip(kept[i])))]

-----------------------------------------------------------------------------
(* solana_monitor.py: the checks *)

Min(a, b) == IF a < b THEN a ELSE b

\* one pass of check_wallets that appends nothing when get_balance raises
check_wallet_drop_failed(wallet, reply, clock) ==
    LET address == Get(wallet, "address", PyStr(<<>>))
        label == Get(wallet, "label", PyStr(SubSeq(address.v, 1, Min(8, Len(address.v)))))
    IN  IF ~Truthy(address) \/ get_balance(reply).raised THEN <<>>
        ELSE << PyDict([address |-> address, label |-> label,
                        balance_sol |-> get_balance(reply).val,
                        timestamp |-> IsoFormat(clock)]) >>

\* a failed check recorded with a balance of 0
FailedBalanceZero == PyNum(0)

\* "balance_sol": None, in the observation of a check that raised
FailedBalance == PyNone

\* one pass of the loop of check_wallets: the observations it appends
check_wallet(wallet, reply, clock) ==
    LET address == Get(wallet, "address", PyStr(<<>>))
        label == Get(wallet, "label", PyStr(SubSeq(address.v, 1, Min(8, Len(address.v)))))
    IN  IF ~Truthy(address) THEN <<>>
        ELSE LET balance == get_balance(reply) IN
             IF ~balance.raised
             THEN << PyDict([address |-> address, label |-> label,
                             balance_sol |-> balance.val,
                             timestamp |-> IsoFormat(clock)]) >>
             ELSE << PyDict([address |-> address, label |-> label,
                             balance_sol |-> FailedBalance,
                             error |-> PyStr(<<balance.exc>>)]) >>

\* for wallet in wallets: the items Python iterates over (the keys of a dict, the
\* characters of a str), or the TypeError of a value that is not iterable
Iter(x) ==
    CASE x.t = "list" -> Ret(x.v)
      [] x.t = "dict" ->
            Ret(LET keys == DOMAIN x.v
                    order == CHOOSE f \in [1..Cardinality(keys) -> keys] :
                                 \A i, j \in 1..Cardinality(keys) : i # j => f[i] # f[j]
                IN  [i \in 1..Cardinality(keys) |-> PyStr(<<order[i]>>)])
      [] x.t = "str" -> Ret([i \in DOMAIN x.v |-> PyStr(<<x.v[i]>>)])
      [] OTHER -> Raise("TypeError")

\* one pass of the loop of check_wallets without its try: the exception of
\* get_balance ends check_wallets
check_wallets_pass_unguarded(wallet, reply, clock) ==
    IF wallet.t # "dict" THEN Raise("AttributeError")
    ELSE IF Truthy(Get(wallet, "address", PyStr(<<>>))) /\ get_balance(reply).raised
         THEN get_balance(reply)
         ELSE Ret(check_wallet(wallet, reply, clock))

\* one pass of the loop of check_wallets on any item: wallet.get is outside the
\* try, so an item that is not a dict ends check_wallets with an AttributeError
check_wallets_pass(wallet, reply, clock) ==
    IF wallet.t # "dict" THEN Raise("AttributeError")
    ELSE Ret(check_wallet(wallet, reply, clock))

NA == PyStr(<<"N", "/", "A">>)

\* pair.get(outer, {}).get(inner, "N/A")
Get2(pair, outer, inner) ==
    LET o == Get(pair, outer, PyDict(<<>>)) IN
    IF o.t # "dict" THEN Raise("AttributeError") ELSE Ret(Get(o, inner, NA))

PriceError(token, msg) == PyDict([symbol |-> token, error |-> PyStr(<<msg>>)])

\* one pass of the loop of check_prices: the observation it appends
check_price(token, reply, clock) ==
    LET data == dex_search(reply) IN
    IF data.t # "dict" THEN PriceError(token, "AttributeError")
    ELSE LET pairs == Get(data, "pairs", PyList(<<>>)) IN
         IF ~Truthy(pairs) THEN PriceError(token, "No pairs found")
         ELSE IF pairs.t # "list" THEN PriceError(token, "TypeError")
         ELSE LET pair == pairs.v[1] IN
              IF pair.t # "dict" THEN PriceError(token, "AttributeError")
              ELSE LET change == Get2(pair, "priceChange", "h24")
                       volume == Get2(pair, "volume", "h24")
                       liquidity == Get2(pair, "liquidity", "usd")
                   IN  IF change.raised \/ volume.raised \/ liquidity.raised
                       THEN PriceError(token, "AttributeError")
                       ELSE PyDict([symbol |-> token,
                                    price_usd |-> Get(pair, "priceUsd", NA),
                                    change_24h |-> change.val,
                                    volume_24h |-> volume.val,
                                    liquidity_usd |-> liquidity.val,
                                    dex |-> Get(pair, "dexId", PyStr(<<"Unknown">>)),
                                    timestamp |-> IsoFormat(clock)])

\* the loop of check_wallets over the items, replies[i] being what the balance
\* query of item i gets; an exception outside the try ends it
RECURSIVE check_wallets_loop(_, _, _)
check_wallets_loop(items, replies, clock) ==
    IF items = <<>> THEN Ret(<<>>)
    ELSE LET first == check_wallets_pass(items[1], replies[1], clock) IN
         IF first.raised THEN first
         ELSE LET rest == check_wallets_loop(Tail(items), Tail(replies), clock) IN
              IF rest.raised THEN rest ELSE Ret(first.val \o rest.val)

check_wallets(wallet_list, replies, clock) ==
    IF Iter(wallet_list).raised THEN Iter(wallet_list)
    ELSE check_wallets_loop(Iter(wallet_list).val, replies, clock)

check_prices(token_list, replies, clock) ==
    [i \in DOMAIN token_list |-> check_price(token_list[i], replies[i], clock)]

-----------------------------------------------------------------------------
(* solana_monitor.py: detect_changes *)

WALLET_THRESHOLD == 5
PRICE_THRESHOLD == 10

\* {o[key]: o for o in observations}: a later observation replaces an earlier one
IndexBy(observations, key) ==
    LET keys == {observations[i].v[key] : i \in DOMAIN observations}
        last(k) == CHOOSE i \in DOMAIN observations :
                      /\ observations[i].v[key] = k
                      /\ \A j \in DOMAIN observations :
                            observations[j].v[key] = k => j <= i
    IN  [k \in keys |-> observations[last(k)]]

\* if prev >= 0
PrevNonNegative(prev) == prev >= 0

\* if prev > 0
PrevPositive(prev) == prev > 0

\* (curr / prev) * 100: the ratio instead of the change
change_pct_ratio(curr, prev) ==
    IF prev = 0 THEN Raise("ZeroDivisionError")
    ELSE Ret([num |-> curr * 100, den |-> prev])

\* ((curr - prev) / prev) * 100, as the fraction num / den
change_pct(curr, prev) ==
    IF prev = 0 THEN Raise("ZeroDivisionError")
    ELSE Ret([num |-> (curr - prev) * 100, den |-> prev])

\* abs(change_pct) >= threshold
ExceedsOrEqual(pct, threshold) == Abs(pct.num) >= threshold * Abs(pct.den)

\* abs(change_pct) > threshold
Exceeds(pct, threshold) == Abs(pct.num) > threshold * Abs(pct.den)

\* change_pct > 0
Positive(pct) == pct.num * pct.den > 0

Alert(kind, name, direction, prev, curr) ==
    [kind |-> kind, name |-> name, direction |-> direction, prev |-> prev, curr |-> curr]

\* if wallet.get("balance_sol") is not None
WalletComparedAny(wallet, prev_wallets) == Get(wallet, "balance_sol", PyNone) # PyNone

\* if addr in prev_wallets and wallet.get("balance_sol") is not None
WalletCompared(wallet, prev_wallets) ==
    /\ wallet.v["address"] \in DOMAIN prev_wallets
    /\ Get(wallet, "balance_sol", PyNone) # PyNone

\* the body of the wallet loop: the alerts one wallet appends, or an exception
wallet_alerts(wallet, prev_wallets) ==
    IF ~WalletCompared(wallet, prev_wallets) THEN Ret(<<>>)
    ELSE IF wallet.v["address"] \notin DOMAIN prev_wallets THEN Raise("KeyError")
    ELSE LET prev_bal == PyOr(Get(prev_wallets[wallet.v["address"]], "balance_sol", PyNum(0)),
                              PyNum(0))
             curr_bal == wallet.v["balance_sol"]
         IN  IF prev_bal.t # "num" THEN Raise("TypeError")
             ELSE IF ~PrevPositive(prev_bal.v) THEN Ret(<<>>)
             ELSE IF curr_bal.t # "num" THEN Raise("TypeError")
             ELSE LET pct == change_pct(curr_bal.v, prev_bal.v) IN
                  IF pct.raised THEN pct
                  ELSE IF Exceeds(pct.val, WALLET_THRESHOLD)
                       THEN Ret(<< Alert("wallet", wallet.v["label"],
                                         IF Positive(pct.val) THEN "increased" ELSE "decreased",
                                         prev_bal.v, curr_bal.v) >>)
                       ELSE Ret(<<>>)

\* price.get("price_usd", 0)
PriceOf(price) == Get(price, "price_usd", PyNum(0))

\* an except clause that catches nothing
CaughtNone(exc) == FALSE

\* except (ValueError, TypeError): pass
Caught(exc) == exc \in {"ValueError", "TypeError"}

\* the body of the price loop, inside its try
price_alerts(price, prev_prices) ==
    LET sym == price.v["symbol"] IN
    IF sym \notin DOMAIN prev_prices THEN Ret(<<>>)
    ELSE LET curr_price == PyFloat(PriceOf(price)) IN
         IF curr_price.raised
         THEN (IF Caught(curr_price.exc) THEN Ret(<<>>) ELSE curr_price)
         ELSE LET prev_price == PyFloat(PriceOf(prev_prices[sym])) IN
              IF prev_price.raised
              THEN (IF Caught(prev_price.exc) THEN Ret(<<>>) ELSE prev_price)
              ELSE IF ~PrevPositive(prev_price.val) THEN Ret(<<>>)
              ELSE LET pct == change_pct(curr_price.val, prev_price.val) IN
                   IF pct.raised THEN pct
                   ELSE IF Exceeds(pct.val, PRICE_THRESHOLD)
                        THEN Ret(<< Alert("price", sym,
                                          IF Positive(pct.val) THEN "pumped" ELSE "dumped",
                                          prev_price.val, curr_price.val) >>)
                        ELSE Ret(<<>>)

\* for wallet in current.get("wallets", []): the alerts of each pass appended in
\* turn; an exception ends the loop
RECURSIVE wallet_loop(_, _)
wallet_loop(items, prev_wallets) ==
    IF items = <<>> THEN Ret(<<>>)
    ELSE LET first == wallet_alerts(items[1], prev_wallets) IN
         IF first.raised THEN first
         ELSE LET rest == wallet_loop(Tail(items), prev_wallets) IN
              IF rest.raised THEN rest ELSE Ret(first.val \o rest.val)

\* for price in current.get("prices", [])
RECURSIVE price_loop(_, _)
price_loop(items, prev_prices) ==
    IF items = <<>> THEN Ret(<<>>)
    ELSE LET first == price_alerts(items[1], prev_prices) IN
         IF first.raised THEN first
         ELSE LET rest == price_loop(Tail(items), prev_prices) IN
              IF rest.raised THEN rest ELSE Ret(first.val \o rest.val)

\* detect_changes with the price alerts put before the wallet alerts
detect_changes_prices_first(current, prev) ==
    LET prev_wallets == IndexBy(Get(prev, "wallets", PyList(<<>>)).v, "address")
        wallet_part == wallet_loop(Get(current, "wallets", PyList(<<>>)).v, prev_wallets)
        prev_prices == IndexBy(Get(prev, "prices", PyList(<<>>)).v, "symbol")
        price_part == price_loop(Get(current, "prices", PyList(<<>>)).v, prev_prices)
    IN  IF wallet_part.raised THEN wallet_part
        ELSE IF price_part.raised THEN price_part
        ELSE Ret(price_part.val \o wallet_part.val)

detect_changes(current, prev) ==
    LET prev_wallets == IndexBy(Get(prev, "wallets", PyList(<<>>)).v, "address")
        wallet_part == wallet_loop(Get(current, "wallets", PyList(<<>>)).v, prev_wallets)
        prev_prices == IndexBy(Get(prev, "prices", PyList(<<>>)).v, "symbol")
        price_part == price_loop(Get(current, "prices", PyList(<<>>)).v, prev_prices)
    IN  IF wallet_part.raised THEN wallet_part
        ELSE IF price_part.raised THEN price_part
        ELSE Ret(wallet_part.val \o price_part.val)

-----------------------------------------------------------------------------
(* solana_monitor.py: format_report; the report is the sequence of its lines *)

\* the line of one wallet: its balance, or "Error" with the error text
WalletLine(w) ==
    IF Get(w, "balance_sol", PyNone) # PyNone
    THEN [kind |-> "wallet", label |-> w.v["label"], balance |-> w.v["balance_sol"]]
    ELSE [kind |-> "wallet_error", label |-> w.v["label"],
          error |-> Get(w, "error", PyStr(<<"Unknown">>))]

\* the table row of one token
PriceRow(q) ==
    [kind |-> "price", symbol |-> q.v["symbol"], price_usd |-> q.v["price_usd"],
     change_24h |-> q.v["change_24h"], volume_24h |-> q.v["volume_24h"],
     liquidity_usd |-> q.v["liquidity_usd"]]

\* if "error" not in p
RowsOf(prices) == SelectSeq(prices, LAMBDA q : "error" \notin DOMAIN q.v)

\* the subscripts and the :.4f format of the f-strings all succeed
Renderable(ws, prices) ==
    /\ \A i \in DOMAIN ws :
          /\ "label" \in DOMAIN ws[i].v
          /\ Get(ws[i], "balance_sol", PyNone).t \in {"None", "num"}
    /\ \A i \in DOMAIN RowsOf(prices) :
          {"symbol", "price_usd", "change_24h", "volume_24h", "liquidity_usd"}
              \subseteq DOMAIN RowsOf(prices)[i].v

\* an alerts section that ends with the sentinel whether or not alerts are listed
AlertsSectionAlwaysQuiet(alert_list) ==
    (IF alert_list # <<>>
     THEN <<[kind |-> "alerts_heading"]>>
          \o [i \in DOMAIN alert_list |-> [kind |-> "alert", alert |-> alert_list[i]]]
     ELSE <<>>)
    \o <<[kind |-> "quiet"]>>

\* if alerts: the heading and one line for each alert; else: the sentinel
AlertsSection(alert_list) ==
    IF alert_list # <<>>
    THEN <<[kind |-> "alerts_heading"]>>
         \o [i \in DOMAIN alert_list |-> [kind |-> "alert", alert |-> alert_list[i]]]
    ELSE <<[kind |-> "quiet"]>>

format_report(snapshot, alert_list, prev) ==
    LET ws == Get(snapshot, "wallets", PyList(<<>>))
        prices == Get(snapshot, "prices", PyList(<<>>))
        rows == RowsOf(prices.v)
    IN  IF ~Renderable(ws.v, prices.v) THEN Raise("KeyError")
        ELSE Ret(<<[kind |-> "title"]>>
                 \o (IF Truthy(ws)
                     THEN <<[kind |-> "wallets_heading"]>>
                          \o [i \in DOMAIN ws.v |-> WalletLine(ws.v[i])]
                     ELSE <<>>)
                 \o (IF Truthy(prices)
                     THEN <<[kind |-> "prices_heading"], [kind |-> "table_head"],
                            [kind |-> "table_rule"]>>
                          \o [i \in DOMAIN rows |-> PriceRow(rows[i])]
                     ELSE <<>>)
                 \o AlertsSection(alert_list))

-----------------------------------------------------------------------------
(* The environment of a sweep: the watchlists and the upstream replies *)

WalletA == JObj([address |-> JStr(<<"A">>), label |-> JStr(<<"a">>)])

WalletB == JObj([address |-> JStr(<<"B">>), label |-> JStr(<<"b">>)])

\* a descriptor with an empty address
WalletBlank == JObj([address |-> JStr(<<>>), label |-> JStr(<<"b">>)])

\* SOLANA_WALLETS: text that is not JSON; a JSON list of descriptors; a list with
\* a descriptor that has no address; a descriptor that is not in a list; a list
\* with an item that is not a descriptor
WalletEnvs ==
    <<JsonInvalid, JArr(<<WalletA>>), JArr(<<WalletBlank>>), WalletA,
      JArr(<<WalletA, JNum(5)>>)>>

\* SOLANA_WATCHLIST
TokenEnvs == {<<" ">>, <<" ", "sol", ",", " ">>}

RpcValue(lamports) == JObj([result |-> JObj([value |-> JNum(lamports)])])

\* a JSON-RPC error reply: it has no result member
RpcErrorReply == JObj([error |-> JObj([code |-> JNum(-32602)])])

RpcNullResult == JObj([result |-> JNull])

BalanceReplies ==
    {HttpError("timed out"), HttpError("unreachable"), HttpBody(JsonInvalid),
     HttpBody(RpcErrorReply), HttpBody(RpcNullResult)}
    \cup {HttpBody(RpcValue(n * LAMPORTS_PER_SOL)) : n \in 0..1}

\* the balance queries the client is specified to report as failed: the endpoint
\* is unreachable or times out, the body is not JSON, or it has no result member
QueryFailed(reply) ==
    \/ reply.http = "error"
    \/ reply.body = JsonInvalid
    \/ reply.body.j = "object" /\ "result" \notin DOMAIN reply.body.v

Pair(price) ==
    JObj([priceUsd |-> JStr(price),
          priceChange |-> JObj([h24 |-> JNum(1)]),
          volume |-> JObj([h24 |-> JNum(1000)]),
          liquidity |-> JObj([usd |-> JNum(5000)]),
          dexId |-> JStr(<<"raydium">>)])

DexPairs(pairs) == JObj([pairs |-> JArr(pairs)])

DexReplies ==
    {HttpError("timed out"), HttpBody(DexPairs(<<>>)),
     HttpBody(DexPairs(<<Pair(<<"1", "0">>)>>)), HttpBody(DexPairs(<<Pair(<<"1", "2">>)>>))}

-----------------------------------------------------------------------------
(* solana_monitor.py: main, one action for each step of a sweep *)

\* main with save_snapshot moved before load_previous_snapshot
main_next_save_first(stage) ==
    CASE stage = "checks" -> "save"
      [] stage = "save" -> "load"
      [] stage = "load" -> "detect"
      [] stage = "detect" -> "report"
      [] stage = "report" -> "respond"
      [] stage = "respond" -> "post"
      [] stage = "post" -> "archive"
      [] stage = "archive" -> "done"

\* main without its call of save_snapshot
main_next_no_save(stage) ==
    CASE stage = "checks" -> "load"
      [] stage = "load" -> "detect"
      [] stage = "detect" -> "report"
      [] stage = "save" -> "report"
      [] stage = "report" -> "respond"
      [] stage = "respond" -> "post"
      [] stage = "post" -> "archive"
      [] stage = "archive" -> "done"

\* main with the alert archive written before the report is posted
main_next_archive_first(stage) ==
    CASE stage = "checks" -> "load"
      [] stage = "load" -> "detect"
      [] stage = "detect" -> "save"
      [] stage = "save" -> "report"
      [] stage = "report" -> "respond"
      [] stage = "respond" -> "archive"
      [] stage = "archive" -> "post"
      [] stage = "post" -> "done"

\* the order of the steps of main after the checks
main_next(stage) ==
    CASE stage = "checks" -> "load"
      [] stage = "load" -> "detect"
      [] stage = "detect" -> "save"
      [] stage = "save" -> "report"
      [] stage = "report" -> "respond"
      [] stage = "respond" -> "post"
      [] stage = "post" -> "archive"
      [] stage = "archive" -> "done"

\* the urlopen calls one fetch_json makes when a failed one is tried again
fetch_attempts_retry(reply) == IF reply.http = "error" THEN 2 ELSE 1

\* the urlopen calls one fetch_json makes: one, whatever the outcome
fetch_attempts(reply) == 1

\* the upstream calls of one pass of check_wallets: none for a skipped descriptor
wallet_attempts(wallet, reply) ==
    IF wallet.t = "dict" /\ Truthy(Get(wallet, "address", PyStr(<<>>)))
    THEN fetch_attempts(reply) ELSE 0

\* the loop of check_prices ends at any position
PricesSettledAny(i, toks) == TRUE

\* the loop of check_prices has passed over every token
PricesSettled(i, toks) == i > Len(toks)

Idle(p) == pc[p] \in {"idle", "crashed"}

NoCalls == [wallet |-> <<>>, token |-> <<>>]

\* the locals of main and the history of the sweep, as they are before main runs
Fresh(p) ==
    /\ wallet_data' = [wallet_data EXCEPT ![p] = <<>>]
    /\ price_data' = [price_data EXCEPT ![p] = <<>>]
    /\ current_snapshot' = [current_snapshot EXCEPT ![p] = PyDict(<<>>)]
    /\ previous' = [previous EXCEPT ![p] = PyDict(<<>>)]
    /\ alerts' = [alerts EXCEPT ![p] = <<>>]
    /\ raw_report' = [raw_report EXCEPT ![p] = Ret(<<>>)]
    /\ idx' = [idx EXCEPT ![p] = 1]
    /\ wallet_failed' = [wallet_failed EXCEPT ![p] = <<>>]
    /\ saved' = [saved EXCEPT ![p] = FALSE]
    /\ loaded_before_save' = [loaded_before_save EXCEPT ![p] = FALSE]
    /\ saves' = [saves EXCEPT ![p] = 0]
    /\ calls' = [calls EXCEPT ![p] = NoCalls]
    /\ response' = [response EXCEPT ![p] = <<>>]
    /\ posted' = [posted EXCEPT ![p] = "none"]
    /\ archived' = [archived EXCEPT ![p] = FALSE]

\* main starts: the watchlists are read from the environment
Start(p) ==
    /\ Idle(p)
    /\ nsweeps < MaxSweeps
    /\ \E we \in DOMAIN WalletEnvs, te \in TokenEnvs :
          /\ wallets' = [wallets EXCEPT ![p] = get_watched_wallets(WalletEnvs[we])]
          /\ tokens' = [tokens EXCEPT ![p] = get_watchlist_tokens(te)]
    /\ nsweeps' = nsweeps + 1
    /\ pc' = [pc EXCEPT ![p] = "check_wallets"]
    /\ started' = Append(started, p)
    /\ overlapped' = (overlapped \/ \E q \in Procs \ {p} : ~Idle(q))
    /\ Fresh(p)
    /\ UNCHANGED <<now, store, overwritten, alert_store, persisted, harnessVars>>

\* check_wallets: one pass of its loop, with the reply the balance query gets
CheckWallet(p) ==
    /\ pc[p] = "check_wallets"
    /\ ~Iter(wallets[p]).raised
    /\ idx[p] <= Len(Iter(wallets[p]).val)
    /\ \E reply \in BalanceReplies :
          LET wallet == Iter(wallets[p]).val[idx[p]]
              pass == check_wallets_pass(wallet, reply, now)
          IN  /\ ~pass.raised
              /\ wallet_data' = [wallet_data EXCEPT ![p] = @ \o pass.val]
              /\ wallet_failed' = [wallet_failed EXCEPT
                                      ![p] = @ \o [i \in DOMAIN pass.val |-> QueryFailed(reply)]]
              /\ calls' = [calls EXCEPT
                              ![p].wallet = Append(@, wallet_attempts(wallet, reply))]
    /\ idx' = [idx EXCEPT ![p] = @ + 1]
    /\ UNCHANGED <<now, store, nsweeps, pc, wallets, tokens, price_data, current_snapshot,
                   previous, alerts, saved, loaded_before_save, overwritten, raw_report, saves,
                   tailVars, harnessVars>>

\* check_wallets raises: wallets is not iterable, or an item of it has no get;
\* nothing in main catches it and the process ends
CheckWalletsRaise(p) ==
    /\ pc[p] = "check_wallets"
    /\ \/ Iter(wallets[p]).raised
       \/ /\ idx[p] <= Len(Iter(wallets[p]).val)
          /\ \E reply \in BalanceReplies :
                check_wallets_pass(Iter(wallets[p]).val[idx[p]], reply, now).raised
    /\ pc' = [pc EXCEPT ![p] = "crashed"]
    /\ UNCHANGED <<now, store, nsweeps, wallets, tokens, wallet_data, price_data,
                   current_snapshot, previous, alerts, idx, wallet_failed, saved,
                   loaded_before_save, overwritten, raw_report, saves, calls,
                   tailVars, harnessVars>>

\* check_wallets returns
WalletsChecked(p) ==
    /\ pc[p] = "check_wallets"
    /\ ~Iter(wallets[p]).raised
    /\ idx[p] > Len(Iter(wallets[p]).val)
    /\ pc' = [pc EXCEPT ![p] = "check_prices"]
    /\ idx' = [idx EXCEPT ![p] = 1]
    /\ UNCHANGED <<now, store, nsweeps, wallets, tokens, wallet_data, price_data,
                   current_snapshot, previous, alerts, wallet_failed, saved,
                   loaded_before_save, overwritten, raw_report, saves, calls,
                   tailVars, harnessVars>>

\* check_prices: one pass of its loop, with the reply the market search gets
CheckPrice(p) ==
    /\ pc[p] = "check_prices"
    /\ idx[p] <= Len(tokens[p])
    /\ \E reply \in DexReplies :
          /\ price_data' = [price_data EXCEPT
                               ![p] = Append(@, check_price(tokens[p][idx[p]], reply, now))]
          /\ calls' = [calls EXCEPT ![p].token = Append(@, fetch_attempts(reply))]
    /\ idx' = [idx EXCEPT ![p] = @ + 1]
    /\ UNCHANGED <<now, store, nsweeps, pc, wallets, tokens, wallet_data, current_snapshot,
                   previous, alerts, wallet_failed, saved, loaded_before_save, overwritten,
                   raw_report, saves, tailVars, harnessVars>>

\* check_prices returns and main builds current_snapshot
PricesChecked(p) ==
    /\ pc[p] = "check_prices"
    /\ PricesSettled(idx[p], tokens[p])
    /\ current_snapshot' = [current_snapshot EXCEPT
                               ![p] = PyDict([timestamp |-> IsoFormat(now),
                                              wallets |-> PyList(wallet_data[p]),
                                              prices |-> PyList(price_data[p])])]
    /\ pc' = [pc EXCEPT ![p] = main_next("checks")]
    /\ UNCHANGED <<now, store, nsweeps, wallets, tokens, wallet_data, price_data, previous,
                   alerts, idx, wallet_failed, saved, loaded_before_save, overwritten,
                   raw_report, saves, calls, tailVars, harnessVars>>

\* previous = load_previous_snapshot()
LoadPrevious(p) ==
    /\ pc[p] = "load"
    /\ LET r == load_previous_snapshot(store) IN
       IF r.raised
       THEN /\ pc' = [pc EXCEPT ![p] = "crashed"]
            /\ UNCHANGED <<previous, loaded_before_save>>
       ELSE /\ previous' = [previous EXCEPT ![p] = r.val]
            /\ loaded_before_save' = [loaded_before_save EXCEPT ![p] = ~saved[p]]
            /\ pc' = [pc EXCEPT ![p] = main_next("load")]
    /\ UNCHANGED <<now, store, nsweeps, wallets, tokens, wallet_data, price_data,
                   current_snapshot, alerts, idx, wallet_failed, saved, overwritten,
                   raw_report, saves, calls, tailVars, harnessVars>>

\* alerts = detect_changes(current_snapshot, previous)
Detect(p) ==
    /\ pc[p] = "detect"
    /\ LET r == detect_changes(current_snapshot[p], previous[p]) IN
       IF r.raised
       THEN /\ pc' = [pc EXCEPT ![p] = "crashed"]
            /\ UNCHANGED alerts
       ELSE /\ alerts' = [alerts EXCEPT ![p] = r.val]
            /\ pc' = [pc EXCEPT ![p] = main_next("detect")]
    /\ UNCHANGED <<now, store, nsweeps, wallets, tokens, wallet_data, price_data,
                   current_snapshot, previous, idx, wallet_failed, saved,
                   loaded_before_save, overwritten, raw_report, saves, calls,
                   tailVars, harnessVars>>

\* save_snapshot(current_snapshot)
Save(p) ==
    /\ pc[p] = "save"
    /\ store' = save_snapshot(store, now, current_snapshot[p])
    /\ overwritten' = (overwritten \/ Replaces(store, SnapshotName(now), store'))
    /\ saved' = [saved EXCEPT ![p] = TRUE]
    /\ saves' = [saves EXCEPT ![p] = @ + 1]
    /\ persisted' = current_snapshot[p]
    /\ pc' = [pc EXCEPT ![p] = main_next("save")]
    /\ UNCHANGED <<now, nsweeps, wallets, tokens, wallet_data, price_data, current_snapshot,
                   previous, alerts, idx, wallet_failed, loaded_before_save, raw_report,
                   calls, response, alert_store, posted, archived, started, overlapped,
                   harnessVars>>

\* raw_report = format_report(current_snapshot, alerts, previous)
Format(p) ==
    /\ pc[p] = "report"
    /\ LET r == format_report(current_snapshot[p], alerts[p], previous[p]) IN
       /\ raw_report' = [raw_report EXCEPT ![p] = r]
       /\ pc' = [pc EXCEPT ![p] = IF r.raised THEN "crashed" ELSE main_next("report")]
    /\ UNCHANGED <<now, store, nsweeps, wallets, tokens, wallet_data, price_data,
                   current_snapshot, previous, alerts, idx, wallet_failed, saved,
                   loaded_before_save, overwritten, saves, calls, tailVars, harnessVars>>

\* the closing line main puts under a report
Footer(text) == [kind |-> "footer", text |-> text]

\* what call_llm returns: a text of its own making
Commentary == <<[kind |-> "commentary"]>>

\* response: with alerts the commentary of call_llm, or the report with a
\* closing line when read_prompt or call_llm raises; without alerts the report
\* with the other closing line
make_response(raw, alert_list, llm_ok) ==
    IF alert_list # <<>>
    THEN (IF llm_ok THEN Commentary ELSE raw \o <<Footer("Always watching")>>)
    ELSE raw \o <<Footer("All quiet on the chain")>>

\* ISSUE_NUMBER, read when main starts and used by the posting step only
IssueNumbers == {0, 1}

\* if issue_number > 0: gh_post_comment(issue_number, response), which posts the
\* response or raises
post_fails(issue_number, post_ok) == issue_number > 0 /\ ~post_ok

\* strftime("%Y%m%d-%H%M") in f"alert-{ts}.md"
AlertName(clock) == clock

\* response + "\n"
ArchiveText(text) == text \o <<[kind |-> "newline"]>>

\* the archive written whether or not there are alerts
archive_alert_always(st, clock, alert_list, text) ==
    WriteText(st, AlertName(clock), ArchiveText(text))

\* if alerts: alert_file.write_text(response + "\n")
archive_alert(st, clock, alert_list, text) ==
    IF alert_list # <<>> THEN WriteText(st, AlertName(clock), ArchiveText(text)) ELSE st

\* the response is made
Respond(p) ==
    /\ pc[p] = "respond"
    /\ \E llm_ok \in BOOLEAN :
          response' = [response EXCEPT
                          ![p] = make_response(raw_report[p].val, alerts[p], llm_ok)]
    /\ pc' = [pc EXCEPT ![p] = main_next("respond")]
    /\ UNCHANGED <<now, store, nsweeps, wallets, tokens, wallet_data, price_data,
                   current_snapshot, previous, alerts, idx, wallet_failed, saved,
                   loaded_before_save, overwritten, raw_report, saves, calls, alert_store,
                   posted, archived, persisted, started, overlapped, harnessVars>>

\* the response is posted; when gh_post_comment raises, nothing in main catches
\* it and the process ends
Post(p) ==
    /\ pc[p] = "post"
    /\ \E issue_number \in IssueNumbers, post_ok \in BOOLEAN :
          /\ posted' = [posted EXCEPT ![p] = IF post_fails(issue_number, post_ok)
                                             THEN "failed" ELSE "passed"]
          /\ pc' = [pc EXCEPT ![p] = IF post_fails(issue_number, post_ok)
                                     THEN "crashed" ELSE main_next("post")]
    /\ UNCHANGED <<now, store, nsweeps, wallets, tokens, wallet_data, price_data,
                   current_snapshot, previous, alerts, idx, wallet_failed, saved,
                   loaded_before_save, overwritten, raw_report, saves, calls, response,
                   alert_store, archived, persisted, started, overlapped, harnessVars>>

\* the response is archived when there are alerts
Archive(p) ==
    /\ pc[p] = "archive"
    /\ alert_store' = archive_alert(alert_store, now, alerts[p], response[p])
    /\ archived' = [archived EXCEPT ![p] = alerts[p] # <<>>]
    /\ pc' = [pc EXCEPT ![p] = main_next("archive")]
    /\ UNCHANGED <<now, store, nsweeps, wallets, tokens, wallet_data, price_data,
                   current_snapshot, previous, alerts, idx, wallet_failed, saved,
                   loaded_before_save, overwritten, raw_report, saves, calls, response,
                   posted, persisted, started, overlapped, harnessVars>>

\* update_stats, award_xp and print(response); main returns: the process ends and
\* its locals are gone
Return(p) ==
    /\ pc[p] = "done"
    /\ pc' = [pc EXCEPT ![p] = "idle"]
    /\ wallets' = [wallets EXCEPT ![p] = PyList(<<>>)]
    /\ tokens' = [tokens EXCEPT ![p] = <<>>]
    /\ Fresh(p)
    /\ UNCHANGED <<now, store, nsweeps, overwritten, alert_store, persisted, started,
                   overlapped, harnessVars>>

\* the steps of main after format_report taken as one: the response is made and
\* posted, archived when there are alerts, and main returns; when the posting
\* raises nothing is archived. Either way the process ends and its locals are gone
Finish(p) ==
    /\ pc[p] = "respond"
    /\ \E llm_ok \in BOOLEAN, issue_number \in IssueNumbers, post_ok \in BOOLEAN :
          alert_store' =
              IF post_fails(issue_number, post_ok) THEN alert_store
              ELSE archive_alert(alert_store, now, alerts[p],
                                 make_response(raw_report[p].val, alerts[p], llm_ok))
    /\ pc' = [pc EXCEPT ![p] = "idle"]
    /\ wallets' = [wallets EXCEPT ![p] = PyList(<<>>)]
    /\ tokens' = [tokens EXCEPT ![p] = <<>>]
    /\ Fresh(p)
    /\ UNCHANGED <<now, store, nsweeps, overwritten, persisted, started, overlapped,
                   harnessVars>>

\* the positions before a step that may read the clock: save_snapshot and the
\* alert archive name their file after the minute
ReadsClock == {"save", "respond", "archive"}

\* a minute passes; no other step reads the clock, so a minute that passes
\* elsewhere in a sweep is one that passes before the next of these steps
Tick ==
    /\ now < MaxMinute
    /\ \/ \A p \in Procs : Idle(p)
       \/ \E p \in Procs : pc[p] \in ReadsClock
    /\ now' = now + 1
    /\ UNCHANGED <<store, nsweeps, pc, wallets, tokens, wallet_data, price_data,
                   current_snapshot, previous, alerts, idx, wallet_failed, saved,
                   loaded_before_save, overwritten, raw_report, saves, calls,
                   tailVars, harnessVars>>

\* the scheduler starts a sweep when no sweep is running
StartSequential(p) == (\A q \in Procs : Idle(q)) /\ Start(p)

\* no sweep has started
NoSweep ==
    /\ now = 0
    /\ nsweeps = 0
    /\ pc = [p \in Procs |-> "idle"]
    /\ wallets = [p \in Procs |-> PyList(<<>>)]
    /\ tokens = [p \in Procs |-> <<>>]
    /\ wallet_data = [p \in Procs |-> <<>>]
    /\ price_data = [p \in Procs |-> <<>>]
    /\ current_snapshot = [p \in Procs |-> PyDict(<<>>)]
    /\ previous = [p \in Procs |-> PyDict(<<>>)]
    /\ alerts = [p \in Procs |-> <<>>]
    /\ idx = [p \in Procs |-> 1]
    /\ wallet_failed = [p \in Procs |-> <<>>]
    /\ saved = [p \in Procs |-> FALSE]
    /\ loaded_before_save = [p \in Procs |-> FALSE]
    /\ overwritten = FALSE
    /\ raw_report = [p \in Procs |-> Ret(<<>>)]
    /\ saves = [p \in Procs |-> 0]
    /\ calls = [p \in Procs |-> NoCalls]
    /\ response = [p \in Procs |-> <<>>]
    /\ alert_store = <<>>
    /\ posted = [p \in Procs |-> "none"]
    /\ archived = [p \in Procs |-> FALSE]
    /\ started = <<>>
    /\ overlapped = FALSE

\* no sweep has started and the store is empty
InitSweeps ==
    /\ NoSweep
    /\ store = <<>>
    /\ persisted = PyDict(<<>>)

\* no snapshots are drawn for detect_changes
DetectOff ==
    /\ dcur = PyDict(<<>>)
    /\ dprev = PyDict(<<>>)
    /\ dres = Ret(<<>>)
    /\ dpc = "off"

\* no watchlist is drawn for the checks
ChecksOff ==
    /\ kin = [kind |-> "none"]
    /\ kout = Ret(<<>>)
    /\ kpc = "off"

\* no performance sample is drawn
TpsOff ==
    /\ tin = PyDict(<<>>)
    /\ tout = Ret(0)
    /\ tpc = "off"

Init == InitSweeps /\ DetectOff /\ ChecksOff /\ TpsOff

\* the steps of a running sweep
Step(p) ==
    \/ CheckWallet(p)
    \/ CheckWalletsRaise(p)
    \/ WalletsChecked(p)
    \/ CheckPrice(p)
    \/ PricesChecked(p)
    \/ LoadPrevious(p)
    \/ Detect(p)
    \/ Save(p)
    \/ Format(p)
    \/ Finish(p)

\* the scheduler runs one sweep at a time
Next ==
    \/ \E p \in Sequential : StartSequential(p) \/ Step(p)
    \/ Tick

Spec == Init /\ [][Next]_vars

\* a running sweep takes its next step: each step is a bounded computation or one
\* urlopen with timeout=15
SpecFair == Spec /\ \A p \in Sequential : WF_vars(Step(p))

-----------------------------------------------------------------------------
(* Sweeps over one watched wallet whose balance queries succeed, run by either
   of two processes over a store that an earlier sweep has left a snapshot in:
   with every step of main after format_report (SpecTail, one sweep at a time),
   and with sweeps that overlap (SpecOverlap) *)

\* the snapshot of an earlier sweep that found 1 SOL in the wallet
SeedSnapshot ==
    PyDict([timestamp |-> IsoFormat(0),
            wallets |-> PyList(check_wallets(PyList(<<Loads(WalletA)>>),
                                             <<HttpBody(RpcValue(LAMPORTS_PER_SOL))>>,
                                             0).val),
            prices |-> PyList(<<>>)])

InitSeeded ==
    /\ NoSweep
    /\ store = save_snapshot(<<>>, 0, SeedSnapshot)
    /\ persisted = SeedSnapshot
    /\ DetectOff /\ ChecksOff /\ TpsOff

\* main starts with SOLANA_WALLETS naming the wallet and no SOLANA_WATCHLIST
StartOne(p) ==
    /\ Start(p)
    /\ wallets'[p] = PyList(<<Loads(WalletA)>>)
    /\ tokens'[p] = <<>>

\* a pass of check_wallets whose balance query succeeds
CheckWalletOk(p) ==
    /\ CheckWallet(p)
    /\ \A i \in DOMAIN wallet_data'[p] :
          /\ Get(wallet_data'[p][i], "balance_sol", PyNone) # PyNone
          /\ ~wallet_failed'[p][i]

\* the steps of a sweep up to format_report
StepToReport(p) ==
    \/ CheckWalletOk(p)
    \/ WalletsChecked(p)
    \/ PricesChecked(p)
    \/ LoadPrevious(p)
    \/ Detect(p)
    \/ Save(p)
    \/ Format(p)

\* one sweep at a time, by either process, each step of main after format_report
\* on its own
NextTail ==
    \/ \E p \in Procs :
          \/ (\A q \in Procs : Idle(q)) /\ StartOne(p)
          \/ StepToReport(p)
          \/ Respond(p)
          \/ Post(p)
          \/ Archive(p)
          \/ Return(p)
    \/ Tick

SpecTail == InitSeeded /\ [][NextTail]_vars

\* a process starts its sweep whether or not the other is running
NextOverlap ==
    \/ \E p \in Procs : StartOne(p) \/ StepToReport(p) \/ Finish(p)
    \/ Tick

SpecOverlap == InitSeeded /\ [][NextOverlap]_vars

-----------------------------------------------------------------------------
(* detect_changes as a function: it is applied to a drawn pair of snapshots *)

\* the observations check_wallets and check_prices build
WalletObs(addr, balance) ==
    PyDict([address |-> PyStr(<<addr>>), label |-> PyStr(<<addr>>),
            balance_sol |-> PyNum(balance), timestamp |-> IsoFormat(0)])

WalletFailure(addr) ==
    PyDict([address |-> PyStr(<<addr>>), label |-> PyStr(<<addr>>),
            balance_sol |-> PyNone, error |-> PyStr(<<"AttributeError">>)])

PriceObs(sym, price) ==
    PyDict([symbol |-> PyStr(<<sym>>), price_usd |-> price, change_24h |-> PyNum(1),
            volume_24h |-> PyNum(1000), liquidity_usd |-> PyNum(5000),
            dex |-> PyStr(<<"raydium">>), timestamp |-> IsoFormat(0)])

Snapshot(ws, ps) ==
    PyDict([timestamp |-> IsoFormat(0), wallets |-> PyList(ws), prices |-> PyList(ps)])

SeqsUpTo(S, n) == UNION {[1..k -> S] : k \in 0..n}

\* snapshots of up to MaxObs observations: repeated and new addresses and symbols
WalletMenu == {WalletObs("A", 20), WalletObs("A", 22), WalletObs("B", 20), WalletFailure("A")}

PriceMenu ==
    {PriceObs("SOL", PyStr(<<"1", "0">>)), PriceObs("SOL", PyStr(<<"1", "2">>)),
     PriceObs("BONK", PyStr(<<"1", "0">>)), PriceObs("BONK", NA),
     PriceError(PyStr(<<"SOL">>), "No pairs found")}

ListSnapshots ==
    {PyDict(<<>>)} \cup
    UNION {{Snapshot(ws, ps) : ps \in SeqsUpTo(PriceMenu, MaxObs - Len(ws))} :
              ws \in SeqsUpTo(WalletMenu, MaxObs)}

\* one wallet, every balance up to MaxBalance
BalanceSnapshots ==
    {Snapshot(<<WalletFailure("A")>>, <<>>)} \cup
    {Snapshot(<<WalletObs("A", n)>>, <<>>) : n \in (-1)..MaxBalance}

\* one token, every price up to MaxPrice and the values that are not prices
PriceValues ==
    {PyStr(NumStr(n)) : n \in 0..MaxPrice} \cup
    {NA, PyStr(<<>>), PyStr(<<"-", "1", "0">>), PyNone, PyNum(10)}

PriceSnapshots ==
    {Snapshot(<<>>, <<PriceError(PyStr(<<"SOL">>), "No pairs found")>>)} \cup
    {Snapshot(<<>>, <<PriceObs("SOL", v)>>) : v \in PriceValues}

\* two wallets and two tokens, in either order, each at one of two values
OrderSnapshots ==
    {Snapshot(<<WalletObs(a[1], x[1]), WalletObs(a[2], x[2])>>,
              <<PriceObs(t[1], PyStr(NumStr(y[1]))), PriceObs(t[2], PyStr(NumStr(y[2])))>>) :
        a \in {<<"A", "B">>, <<"B", "A">>}, x \in {20, 22} \X {20, 22},
        t \in {<<"SOL", "BONK">>, <<"BONK", "SOL">>}, y \in {10, 12} \X {10, 12}}

DetectInputs ==
    (ListSnapshots \X ListSnapshots) \cup (BalanceSnapshots \X BalanceSnapshots)
    \cup (PriceSnapshots \X PriceSnapshots) \cup (OrderSnapshots \X OrderSnapshots)

InitDetect ==
    /\ InitSweeps /\ ChecksOff /\ TpsOff
    /\ \E pair \in DetectInputs : dcur = pair[1] /\ dprev = pair[2]
    /\ dres = Ret(<<>>)
    /\ dpc = "drawn"

ApplyDetect ==
    /\ dpc = "drawn"
    /\ dres' = detect_changes(dcur, dprev)
    /\ dpc' = "applied"
    /\ UNCHANGED <<dcur, dprev, sweepVars, checkVars, tpsVars>>

SpecDetect == InitDetect /\ [][ApplyDetect]_vars

-----------------------------------------------------------------------------
(* check_wallets and check_prices as functions: they are applied to a drawn
   watchlist, each item with the reply its upstream call gets *)

\* the descriptors a wallet watchlist is drawn from
DescriptorMenu == {Loads(WalletA), Loads(WalletB), Loads(WalletBlank)}

SymbolMenu == {PyStr(<<"SOL">>), PyStr(<<"BONK">>)}

WalletInputs ==
    UNION {{[kind |-> "wallets", list |-> PyList(ws), replies |-> rs] :
               ws \in [1..k -> DescriptorMenu], rs \in [1..k -> BalanceReplies]} :
           k \in 0..MaxWatch}

TokenInputs ==
    UNION {{[kind |-> "tokens", list |-> ts, replies |-> rs] :
               ts \in [1..k -> SymbolMenu], rs \in [1..k -> DexReplies]} :
           k \in 0..MaxWatch}

InitChecks ==
    /\ InitSweeps /\ DetectOff /\ TpsOff
    /\ \/ \E x \in WalletInputs : kin = x
       \/ \E x \in TokenInputs : kin = x
    /\ kout = Ret(<<>>)
    /\ kpc = "drawn"

ApplyChecks ==
    /\ kpc = "drawn"
    /\ kout' = IF kin.kind = "wallets" THEN check_wallets(kin.list, kin.replies, now)
               ELSE Ret(check_prices(kin.list, kin.replies, now))
    /\ kpc' = "applied"
    /\ UNCHANGED <<kin, sweepVars, detectVars, tpsVars>>

SpecChecks == InitChecks /\ [][ApplyChecks]_vars

-----------------------------------------------------------------------------
(* The TPS figure of handle_network as a function: it is applied to a drawn
   performance sample *)

\* the members a sample may have: a count or none, a period, a null one or none
SampleInputs ==
    {PyDict(txs @@ period) :
        txs \in {<<>>} \cup {[numTransactions |-> PyNum(n)] : n \in 0..MaxTx},
        period \in {<<>>, [samplePeriodSecs |-> PyNone]}
                      \cup {[samplePeriodSecs |-> PyNum(n)] : n \in -1..MaxPeriod}}

InitTps ==
    /\ InitSweeps /\ DetectOff /\ ChecksOff
    /\ tin \in SampleInputs
    /\ tout = Ret(0)
    /\ tpc = "drawn"

ApplyTps ==
    /\ tpc = "drawn"
    /\ tout' = sample_tps(tin)
    /\ tpc' = "applied"
    /\ UNCHANGED <<tin, sweepVars, detectVars, checkVars>>

SpecTps == InitTps /\ [][ApplyTps]_vars

-----------------------------------------------------------------------------
(* Claims about a sweep, checked under Spec *)

WalletsOf(snapshot) == Get(snapshot, "wallets", PyList(<<>>)).v

PricesOf(snapshot) == Get(snapshot, "prices", PyList(<<>>)).v

BalanceIn(obs) == Get(obs, "balance_sol", PyNone)

\* the sweep has completed its checks: main has built current_snapshot
ChecksCompleted(p) == current_snapshot[p] # PyDict(<<>>)

\* C1: in every sweep load_previous_snapshot is called before the sweep calls
\* save_snapshot: while the sweep is about to read or to compare it has not yet
\* written, and once it has written it had read before
C1_ReadBeforeWrite ==
    \A p \in Procs :
        /\ pc[p] \in {"load", "detect"} => ~saved[p]
        /\ saved[p] => loaded_before_save[p]

C1_Witness ==
    \E p \in Procs :
        /\ pc[p] = "report" /\ saved[p] /\ loaded_before_save[p]
        /\ previous[p] # PyDict(<<>>)

\* C2: a wallet whose balance query failed is recorded with an error and no
\* balance
C2_FailedQueryRecordsError ==
    \A p \in Procs : \A i \in DOMAIN wallet_failed[p] :
        wallet_failed[p][i] =>
            /\ "error" \in DOMAIN wallet_data[p][i].v
            /\ BalanceIn(wallet_data[p][i]) = PyNone

\* C3: a token whose current observation has an error and no price_usd gets no
\* price alert
C3_FailedTokenNeverAlerts ==
    \A p \in Procs :
        pc[p] \in {"save", "report"} =>
            \A i \in DOMAIN PricesOf(current_snapshot[p]) :
                LET obs == PricesOf(current_snapshot[p])[i] IN
                ("error" \in DOMAIN obs.v /\ "price_usd" \notin DOMAIN obs.v) =>
                    ~\E a \in DOMAIN alerts[p] :
                        alerts[p][a].kind = "price" /\ alerts[p][a].name = obs.v["symbol"]

\* C5: every snapshot save_snapshot has written is still in the store, with the
\* text that was written: no save has replaced the text of an earlier one
C5_WrittenSnapshotsKept == ~overwritten

\* C6: right after save_snapshot(X), load_previous_snapshot() returns X
C6_RoundTrip ==
    \A p \in Procs :
        pc[p] = "report" => load_previous_snapshot(store) = Ret(current_snapshot[p])

C6_Witness ==
    \E p \in Procs :
        /\ pc[p] = "report"
        /\ Cardinality(DOMAIN store) = 2
        /\ \E i \in DOMAIN WalletsOf(current_snapshot[p]) :
              BalanceIn(WalletsOf(current_snapshot[p])[i]) = PyNone
        /\ PricesOf(current_snapshot[p]) # <<>>

\* C7: with no snapshot in the store a sweep that has completed its checks does
\* not fail, previous is the empty snapshot, and detect_changes against it gives
\* no alert
C7_FirstRun ==
    \A p \in Procs :
        /\ (pc[p] = "crashed" /\ ChecksCompleted(p)) => DOMAIN store # {}
        /\ (pc[p] \in {"detect", "save"} /\ DOMAIN store = {}) => previous[p] = PyDict(<<>>)
        /\ (pc[p] \in {"save", "report"} /\ previous[p] = PyDict(<<>>)) => alerts[p] = <<>>

C7_Witness ==
    \E p \in Procs :
        /\ pc[p] = "save" /\ DOMAIN store = {}
        /\ previous[p] = PyDict(<<>>)
        /\ \E i \in DOMAIN WalletsOf(current_snapshot[p]) :
              BalanceIn(WalletsOf(current_snapshot[p])[i]) = PyNum(1)
        /\ \E i \in DOMAIN PricesOf(current_snapshot[p]) :
              "price_usd" \in DOMAIN PricesOf(current_snapshot[p])[i].v

-----------------------------------------------------------------------------
(* Claims about detect_changes, checked under SpecDetect *)

Applied == dpc = "applied"

KeysOf(observations, key) == {observations[i].v[key] : i \in DOMAIN observations}

\* the observations that carry the value under the key
Holding(observations, key, value) ==
    {i \in DOMAIN observations : observations[i].v[key] = value}

\* no address and no symbol occurs twice in the snapshot
DistinctKeys(snapshot) ==
    /\ \A i \in DOMAIN WalletsOf(snapshot) :
          Cardinality(Holding(WalletsOf(snapshot), "address",
                              WalletsOf(snapshot)[i].v["address"])) = 1
    /\ \A i \in DOMAIN PricesOf(snapshot) :
          Cardinality(Holding(PricesOf(snapshot), "symbol",
                              PricesOf(snapshot)[i].v["symbol"])) = 1

\* the alerts of the kind that name the label or the symbol
AlertsNamed(kind, name) ==
    {a \in DOMAIN dres.val : dres.val[a].kind = kind /\ dres.val[a].name = name}

C9_NewWalletNeverAlerts ==
    Applied =>
        /\ ~dres.raised
        /\ \A i \in DOMAIN WalletsOf(dcur) :
              WalletsOf(dcur)[i].v["address"] \notin KeysOf(WalletsOf(dprev), "address")
                  => AlertsNamed("wallet", WalletsOf(dcur)[i].v["label"]) = {}

\* a new wallet with a balance beside a known wallet that alerts
C9_Witness ==
    /\ Applied
    /\ dcur = Snapshot(<<WalletObs("A", 22), WalletObs("B", 20)>>, <<>>)
    /\ dprev = Snapshot(<<WalletObs("A", 20)>>, <<>>)
    /\ ~dres.raised /\ Len(dres.val) = 1

\* C10: a wallet whose previous balance is 0 or absent gets no wallet alert, and
\* detect_changes never divides by zero
C10_ZeroPreviousNeverAlerts ==
    Applied =>
        /\ ~(dres.raised /\ dres.exc = "ZeroDivisionError")
        /\ \A i \in DOMAIN WalletsOf(dcur) :
              LET w == WalletsOf(dcur)[i]
                  js == Holding(WalletsOf(dprev), "address", w.v["address"])
              IN  (/\ js # {}
                   /\ \A j \in js : BalanceIn(WalletsOf(dprev)[j]) \in {PyNum(0), PyNone})
                  => (~dres.raised /\ AlertsNamed("wallet", w.v["label"]) = {})

\* the largest balance drawn against a previous balance of 0
C10_Witness ==
    /\ Applied
    /\ dcur = Snapshot(<<WalletObs("A", 22)>>, <<>>)
    /\ dprev = Snapshot(<<WalletObs("A", 0)>>, <<>>)
    /\ dres = Ret(<<>>)

\* the value of price_usd is there and float() does not take it
NonNumeric(obs) == "price_usd" \in DOMAIN obs.v /\ PyFloat(obs.v["price_usd"]).raised

\* the previous observation detect_changes compares the symbol with: the last one
LastHolding(observations, key, value) ==
    observations[CHOOSE i \in Holding(observations, key, value) :
                    \A j \in Holding(observations, key, value) : j <= i]

\* the token is in both snapshots and one of the two prices compared is not a number
SkippedToken(obs) ==
    /\ obs.v["symbol"] \in KeysOf(PricesOf(dprev), "symbol")
    /\ \/ NonNumeric(obs)
       \/ NonNumeric(LastHolding(PricesOf(dprev), "symbol", obs.v["symbol"]))

\* the current snapshot without the tokens that are passed over
WithoutSkipped ==
    Snapshot(WalletsOf(dcur), SelectSeq(PricesOf(dcur), LAMBDA obs : ~SkippedToken(obs)))

\* C11: a token of both snapshots whose current or previous price_usd is not a
\* number gets no price alert, detect_changes returns, and the alerts are those
\* of the current snapshot without such tokens: the other wallets and tokens are
\* compared as they would be without them
C11_NonNumericPriceSkipped ==
    Applied =>
        /\ ~dres.raised
        /\ \A i \in DOMAIN PricesOf(dcur) :
              (/\ SkippedToken(PricesOf(dcur)[i])
               /\ Cardinality(Holding(PricesOf(dcur), "symbol",
                                      PricesOf(dcur)[i].v["symbol"])) = 1)
                  => AlertsNamed("price", PricesOf(dcur)[i].v["symbol"]) = {}
        /\ (\E i \in DOMAIN PricesOf(dcur) : SkippedToken(PricesOf(dcur)[i]))
              => dres = detect_changes(WithoutSkipped, dprev)

\* BONK is "N/A" now, and SOL beside it went from 10 to 12 and alerts
C11_Witness ==
    /\ Applied
    /\ dcur = Snapshot(<<>>, <<PriceObs("BONK", NA), PriceObs("SOL", PyStr(<<"1", "2">>))>>)
    /\ dprev = Snapshot(<<>>, <<PriceObs("BONK", PyStr(<<"1", "0">>)),
                                PriceObs("SOL", PyStr(<<"1", "0">>))>>)
    /\ ~dres.raised
    /\ Len(dres.val) = 1
    /\ dres.val[1].name = PyStr(<<"SOL">>)

\* the alert of the wallet at a position of the current snapshot, if it has one
WalletAlertAt(i) ==
    wallet_alerts(WalletsOf(dcur)[i], IndexBy(WalletsOf(dprev), "address"))

TokenAlertAt(i) ==
    price_alerts(PricesOf(dcur)[i], IndexBy(PricesOf(dprev), "symbol"))

\* the positions of the current snapshot whose wallet, or token, alerts
WalletHits == {i \in DOMAIN WalletsOf(dcur) : WalletAlertAt(i) # Ret(<<>>)}

TokenHits == {i \in DOMAIN PricesOf(dcur) : TokenAlertAt(i) # Ret(<<>>)}

\* the k-th smallest member of a set of positions
Nth(S, k) == CHOOSE i \in S : Cardinality({j \in S : j < i}) = k - 1

\* C12: the list detect_changes returns is the alert of each alerting wallet, in
\* the order of the wallets in the current snapshot, and then the alert of each
\* alerting token, in the order of the tokens: as many alerts as alerting items
C12_AlertOrder ==
    (Applied /\ ~dres.raised) =>
        /\ Len(dres.val) = Cardinality(WalletHits) + Cardinality(TokenHits)
        /\ \A k \in 1..Cardinality(WalletHits) :
              /\ dres.val[k].kind = "wallet"
              /\ <<dres.val[k]>> = WalletAlertAt(Nth(WalletHits, k)).val
        /\ \A k \in 1..Cardinality(TokenHits) :
              /\ dres.val[Cardinality(WalletHits) + k].kind = "price"
              /\ <<dres.val[Cardinality(WalletHits) + k]>> = TokenAlertAt(Nth(TokenHits, k)).val

\* wallets A, B and tokens SOL, BONK all alert; the previous snapshot lists them
\* the other way round
C12_Witness ==
    /\ Applied
    /\ dcur = Snapshot(<<WalletObs("A", 22), WalletObs("B", 22)>>,
                       <<PriceObs("SOL", PyStr(<<"1", "2">>)),
                         PriceObs("BONK", PyStr(<<"1", "2">>))>>)
    /\ dprev = Snapshot(<<WalletObs("B", 20), WalletObs("A", 20)>>,
                        <<PriceObs("BONK", PyStr(<<"1", "0">>)),
                          PriceObs("SOL", PyStr(<<"1", "0">>))>>)
    /\ ~dres.raised
    /\ [k \in DOMAIN dres.val |-> dres.val[k].name]
          = <<PyStr(<<"A">>), PyStr(<<"B">>), PyStr(<<"SOL">>), PyStr(<<"BONK">>)>>

-----------------------------------------------------------------------------
(* Claims about the later steps of a sweep, checked under Spec and SpecFair *)

\* the steps of main after its checks, before and after save_snapshot
BeforeSave == {"load", "detect", "save"}

AfterSave == {"report", "respond"}

\* C13: a sweep that has completed its checks does not fail before it saves, has
\* saved nothing until save_snapshot and has saved exactly once from then on,
\* with or without alerts
C13_SavedExactlyOnce ==
    \A p \in Procs :
        /\ (pc[p] = "crashed" /\ ChecksCompleted(p)) => saves[p] = 1
        /\ pc[p] \in BeforeSave => saves[p] = 0
        /\ pc[p] \in AfterSave => saves[p] = 1

\* a sweep with no alert whose snapshot has the observations of the previous one
C13_Witness ==
    \E p \in Procs :
        /\ pc[p] = "respond" /\ saves[p] = 1
        /\ alerts[p] = <<>>
        /\ previous[p] = current_snapshot[p]
        /\ WalletsOf(current_snapshot[p]) # <<>>
        /\ PricesOf(current_snapshot[p]) # <<>>

\* the steps of main in which its checks run
Checking == {"check_wallets", "check_prices"}

\* the items of the wallet watchlist the loop of check_wallets passes over
WatchedItems(p) == Iter(wallets[p]).val

\* C14: a sweep that is still checking, or that failed during its checks, has
\* written nothing; and when a sweep has just written, the snapshot in the store
\* has the observations of all its checks: every position of both watchlists has
\* been passed, the wallet observations are all there and there is one token
\* observation for each token
C14_NoPartialSnapshot ==
    \A p \in Procs :
        /\ pc[p] \in Checking => saves[p] = 0
        /\ (pc[p] = "crashed" /\ ~ChecksCompleted(p)) => saves[p] = 0
        /\ pc[p] = "report" =>
              LET stored == load_previous_snapshot(store).val IN
              /\ Len(calls[p].wallet) = Len(WatchedItems(p))
              /\ Len(calls[p].token) = Len(tokens[p])
              /\ WalletsOf(stored) = wallet_data[p]
              /\ Len(PricesOf(stored)) = Len(tokens[p])

\* a sweep fails at the second item of its watchlist, after the observation of
\* the first, while the store holds the snapshot of an earlier sweep only
C14_Witness ==
    \E p \in Procs :
        /\ pc[p] = "crashed" /\ ~ChecksCompleted(p)
        /\ wallet_data[p] # <<>>
        /\ saves[p] = 0
        /\ Cardinality(DOMAIN store) = 1 /\ ~overwritten

\* wallets is a list of descriptors: what check_wallets is written for
WellFormed(ws) == ws.t = "list" /\ \A i \in DOMAIN ws.v : ws.v[i].t = "dict"

\* every upstream call of the sweep failed: each balance query, and each market
\* search (its observation carries the error of the failed fetch)
AllUpstreamFailed(p) ==
    /\ wallet_failed[p] # <<>> /\ \A i \in DOMAIN wallet_failed[p] : wallet_failed[p][i]
    /\ price_data[p] # <<>>
    /\ \A i \in DOMAIN price_data[p] : "error" \in DOMAIN price_data[p][i].v

\* C15: whatever the upstream calls return, a sweep over a list of descriptors
\* never ends with an exception, and from its first check it goes on to build its
\* snapshot, save it and render its report
C15_SweepCompletes ==
    /\ [](\A p \in Sequential : pc[p] = "crashed" => ~WellFormed(wallets[p]))
    /\ \A p \in Sequential :
          (pc[p] = "check_wallets" /\ WellFormed(wallets[p]))
              ~> (/\ pc[p] = "respond"
                  /\ ChecksCompleted(p)
                  /\ saves[p] = 1
                  /\ ~raw_report[p].raised /\ raw_report[p].val # <<>>)

\* a sweep all of whose upstream calls failed has saved and rendered its report
C15_Witness ==
    \E p \in Sequential :
        /\ pc[p] = "respond"
        /\ AllUpstreamFailed(p)
        /\ saves[p] = 1
        /\ ~raw_report[p].raised /\ raw_report[p].val # <<>>

\* the lines of the rendered report
ReportLines(p) == raw_report[p].val

\* some line of the report names the item and carries the text
Has(p, kind, key, name, field, text) ==
    \E i \in DOMAIN ReportLines(p) :
        /\ ReportLines(p)[i].kind = kind
        /\ ReportLines(p)[i][key] = name
        /\ ReportLines(p)[i][field] = text

\* some line of the report names the token and carries the error text
HasTokenError(p, symbol, text) ==
    \E i \in DOMAIN ReportLines(p) :
        /\ {"symbol", "error"} \subseteq DOMAIN ReportLines(p)[i]
        /\ ReportLines(p)[i].symbol = symbol
        /\ ReportLines(p)[i].error = text

\* C16: in the rendered report every wallet and every token whose check failed
\* has a line with its error text, and every wallet and token whose check
\* succeeded has its line
C16_FailuresReportedInline ==
    \A p \in Procs :
        pc[p] = "respond" =>
            /\ \A i \in DOMAIN wallet_data[p] :
                  LET w == wallet_data[p][i] IN
                  IF "error" \in DOMAIN w.v
                  THEN Has(p, "wallet_error", "label", w.v["label"], "error", w.v["error"])
                  ELSE Has(p, "wallet", "label", w.v["label"], "balance", w.v["balance_sol"])
            /\ \A i \in DOMAIN price_data[p] :
                  LET q == price_data[p][i] IN
                  IF "error" \in DOMAIN q.v
                  THEN HasTokenError(p, q.v["symbol"], q.v["error"])
                  ELSE Has(p, "price", "symbol", q.v["symbol"], "price_usd", q.v["price_usd"])

\* C17: no sweep ends with an exception because of its wallet watchlist, and a
\* sweep whose watchlist gave no wallet saves its snapshot and renders a report
\* without the wallet section
C17_MalformedWatchlistEmpty ==
    \A p \in Procs :
        /\ ~(pc[p] = "crashed" /\ ~ChecksCompleted(p))
        /\ (pc[p] = "respond" /\ wallet_data[p] = <<>>) =>
              /\ saves[p] = 1
              /\ ~raw_report[p].raised
              /\ \A i \in DOMAIN ReportLines(p) :
                    ReportLines(p)[i].kind \notin {"wallets_heading", "wallet", "wallet_error"}

\* the positions of a watchlist for which an upstream call was made
Called(counts) == {i \in DOMAIN counts : counts[i] > 0}

\* C18: in a sweep no position of the wallet watchlist and none of the token
\* watchlist has more than one upstream call, a position is passed once, each
\* observation cost one call, failed or not, and a sweep starts with no call made
C18_OneCallPerItem ==
    \A p \in Procs :
        /\ \A i \in DOMAIN calls[p].wallet : calls[p].wallet[i] <= 1
        /\ \A i \in DOMAIN calls[p].token : calls[p].token[i] <= 1
        /\ Iter(wallets[p]).raised => calls[p].wallet = <<>>
        /\ ~Iter(wallets[p]).raised => Len(calls[p].wallet) <= Len(WatchedItems(p))
        /\ Len(calls[p].token) <= Len(tokens[p])
        /\ Cardinality(Called(calls[p].wallet)) = Len(wallet_data[p])
        /\ Cardinality(Called(calls[p].token)) = Len(price_data[p])
        /\ (pc[p] = "check_wallets" /\ idx[p] = 1) => calls[p] = NoCalls

\* the second sweep: the balance query and the market search failed in the sweep
\* before it and fail again, one call each
C18_Witness ==
    \E p \in Procs :
        /\ pc[p] = "respond" /\ nsweeps = 2
        /\ \E i \in DOMAIN WalletsOf(previous[p]) : "error" \in DOMAIN WalletsOf(previous[p])[i].v
        /\ \E i \in DOMAIN PricesOf(previous[p]) : "error" \in DOMAIN PricesOf(previous[p])[i].v
        /\ wallet_failed[p] = <<TRUE>> /\ calls[p].wallet = <<1>>
        /\ Len(price_data[p]) = 1 /\ "error" \in DOMAIN price_data[p][1].v
        /\ calls[p].token = <<1>>

\* a wallet observation has a balance or an error, and not both
OneOfBalanceAndError(obs) ==
    /\ BalanceIn(obs) # PyNone \/ "error" \in DOMAIN obs.v
    /\ ~(BalanceIn(obs) # PyNone /\ "error" \in DOMAIN obs.v)

\* C19: every wallet observation check_wallets has built, every one in the
\* snapshot of a sweep and every one in a stored snapshot has exactly one of a
\* balance and an error (a balance_sol of None is no balance)
C19_BalanceXorError ==
    /\ \A p \in Procs :
          /\ \A i \in DOMAIN wallet_data[p] : OneOfBalanceAndError(wallet_data[p][i])
          /\ \A i \in DOMAIN WalletsOf(current_snapshot[p]) :
                OneOfBalanceAndError(WalletsOf(current_snapshot[p])[i])
    /\ \A n \in DOMAIN store :
          \A i \in DOMAIN WalletsOf(Loads(store[n])) :
              OneOfBalanceAndError(WalletsOf(Loads(store[n]))[i])

\* a stored snapshot with an error observation and a sweep's snapshot with a balance
C19_Witness ==
    /\ \E n \in DOMAIN store :
          \E i \in DOMAIN WalletsOf(Loads(store[n])) :
              "error" \in DOMAIN WalletsOf(Loads(store[n]))[i].v
    /\ \E p \in Procs :
          /\ pc[p] = "load"
          /\ \E i \in DOMAIN WalletsOf(current_snapshot[p]) :
                BalanceIn(WalletsOf(current_snapshot[p])[i]) = PyNum(1)

-----------------------------------------------------------------------------
(* Claims about check_wallets and check_prices, checked under SpecChecks *)

Checked == kpc = "applied" /\ ~kout.raised

\* the descriptors of the drawn watchlist that have an address
WithAddress == SelectSeq(kin.list.v, LAMBDA d : Truthy(Get(d, "address", PyStr(<<>>))))

\* the token observations are those of the watched symbols, one each, in order
OnePerSymbol ==
    /\ Len(kout.val) = Len(kin.list)
    /\ \A i \in DOMAIN kout.val : kout.val[i].v["symbol"] = kin.list[i]

\* C20 as stated: one wallet observation for each descriptor of the watchlist and
\* one token observation for each watched symbol, in the order of the watchlist
C20_OneObservationPerItem ==
    Checked =>
        IF kin.kind = "wallets"
        THEN /\ Len(kout.val) = Len(kin.list.v)
             /\ \A i \in DOMAIN kout.val :
                   kout.val[i].v["address"] = kin.list.v[i].v["address"]
        ELSE OnePerSymbol

\* C20 as amended: one wallet observation for each descriptor that has a
\* non-empty address, and one token observation for each watched symbol, in the
\* order of the watchlist, whether the checks succeed or fail
C20_OneObservationPerAddress ==
    Checked =>
        IF kin.kind = "wallets"
        THEN /\ Len(kout.val) = Len(WithAddress)
             /\ \A i \in DOMAIN kout.val :
                   /\ kout.val[i].v["address"] = WithAddress[i].v["address"]
                   /\ kout.val[i].v["label"] = WithAddress[i].v["label"]
        ELSE OnePerSymbol

\* the query of B gets a null result and fails, the query of A succeeds: B's
\* error observation first, A's balance second
C20_Witness ==
    /\ Checked
    /\ kin.kind = "wallets"
    /\ kin.list = PyList(<<Loads(WalletB), Loads(WalletA)>>)
    /\ kin.replies = <<HttpBody(RpcNullResult), HttpBody(RpcValue(LAMPORTS_PER_SOL))>>
    /\ Len(kout.val) = 2
    /\ "error" \in DOMAIN kout.val[1].v /\ kout.val[1].v["address"] = PyStr(<<"B">>)
    /\ BalanceIn(kout.val[2]) = PyNum(1) /\ kout.val[2].v["address"] = PyStr(<<"A">>)

\* the observation of a token records the fixed text of "no market found"
NoMarket(obs) == Get(obs, "error", PyNone) = PyStr(<<"No pairs found">>)

\* C22: a market search that fails on the network is recorded as an upstream
\* error, a search that succeeds with an empty pair list as "no market found",
\* and the two token observations differ
C22_SearchFailureDistinct ==
    (Checked /\ kin.kind = "tokens") =>
        \A i \in DOMAIN kin.replies :
            /\ kin.replies[i] = HttpBody(DexPairs(<<>>)) => NoMarket(kout.val[i])
            /\ kin.replies[i].http = "error" =>
                  /\ "error" \in DOMAIN kout.val[i].v
                  /\ ~NoMarket(kout.val[i])
                  /\ kout.val[i] # check_price(kin.list[i], HttpBody(DexPairs(<<>>)), now)

-----------------------------------------------------------------------------
(* Claims about the report and what follows it in a sweep *)

\* the lines of kind k in a report
LinesOfKind(lines, k) == {i \in DOMAIN lines : lines[i].kind = k}

\* the report of sweep p has been made by format_report
Reported(p) == pc[p] = "respond" /\ ~raw_report[p].raised

\* C23: the report ends with the alerts section: the heading and then every
\* alert of the list, once each and in the order of the list, when the list is
\* not empty, and the sentinel alone when it is empty; never both
C23_AlertsSection ==
    \A p \in Procs :
        Reported(p) =>
            LET lines == raw_report[p].val
                n == Len(alerts[p])
                m == Len(lines)
            IN  IF n > 0
                THEN /\ m >= n + 1
                     /\ LinesOfKind(lines, "alerts_heading") = {m - n}
                     /\ LinesOfKind(lines, "alert") = (m - n + 1)..m
                     /\ \A i \in 1..n : lines[m - n + i].alert = alerts[p][i]
                     /\ LinesOfKind(lines, "quiet") = {}
                ELSE /\ LinesOfKind(lines, "quiet") = {m}
                     /\ LinesOfKind(lines, "alerts_heading") = {}
                     /\ LinesOfKind(lines, "alert") = {}

\* a sweep raises a wallet alert and a price alert, and its report ends with the
\* heading and the two of them in that order
C23_Witness ==
    \E p \in Procs :
        /\ Reported(p)
        /\ Len(alerts[p]) = 2
        /\ alerts[p][1].kind = "wallet" /\ alerts[p][2].kind = "price"
        /\ LET lines == raw_report[p].val IN
           /\ lines[Len(lines) - 2].kind = "alerts_heading"
           /\ lines[Len(lines) - 1].alert = alerts[p][1]
           /\ lines[Len(lines)].alert = alerts[p][2]

-----------------------------------------------------------------------------
(* Claims about the TPS figure, checked under SpecTps *)

\* the drawn sample has a transaction count and a period, both numbers
Sampled ==
    /\ tpc = "applied"
    /\ Get(tin, "numTransactions", PyNone).t = "num"
    /\ Get(tin, "samplePeriodSecs", PyNone).t = "num"

\* C24: the TPS figure is the floor of txCount / periodSecs when periodSecs is
\* positive and 0 when it is zero or negative; computing it never divides by zero
C24_TpsFloor ==
    /\ tpc = "applied" => ~(tout.raised /\ tout.exc = "ZeroDivisionError")
    /\ Sampled =>
          LET txs == tin.v["numTransactions"].v
              period == tin.v["samplePeriodSecs"].v
          IN  /\ ~tout.raised
              /\ IF period > 0
                 THEN tout.val * period <= txs /\ txs < (tout.val + 1) * period
                 ELSE tout.val = 0

\* a sample of 7 transactions over a period of 0 seconds has the figure 0
C24_Witness ==
    /\ Sampled
    /\ tin.v["numTransactions"] = PyNum(7)
    /\ tin.v["samplePeriodSecs"] = PyNum(0)
    /\ tout = Ret(0)

\* the sweep has loaded its previous snapshot and not yet saved its own
Comparing == {"detect", "save"}

\* C25: the previous snapshot a sweep compares against is the snapshot the sweep
\* before it persisted, and the empty snapshot when none has been persisted; at
\* every moment the store would give the next sweep the snapshot persisted last,
\* also when sweeps fall in the same minute
C25_PreviousIsLastPersisted ==
    /\ load_previous_snapshot(store) = Ret(persisted)
    /\ \A p \in Sequential : pc[p] \in Comparing => previous[p] = persisted

\* the second sweep runs in the minute of the first and compares against the
\* snapshot the first one persisted
C25_Witness ==
    \E p \in Sequential :
        /\ pc[p] = "detect" /\ nsweeps = 2
        /\ DOMAIN store = {SnapshotName(now)}
        /\ previous[p] = persisted
        /\ WalletsOf(previous[p]) # <<>>
        /\ current_snapshot[p] # previous[p]

-----------------------------------------------------------------------------
(* Claims about the steps of main after format_report, checked under SpecTail *)

\* main has passed the archiving step and is about to return
Archived(p) == pc[p] = "done"

\* the text a sweep outputs: the commentary, or the report with a closing line
FinalTexts(p) ==
    {Commentary,
     raw_report[p].val \o <<Footer("Always watching")>>,
     raw_report[p].val \o <<Footer("All quiet on the chain")>>}

Handed == {"respond", "post", "archive", "done"}

\* the sweep has saved its snapshot once and the store holds it as the latest
Persisted(p) ==
    /\ saves[p] = 1
    /\ persisted = current_snapshot[p]
    /\ load_previous_snapshot(store) = Ret(current_snapshot[p])

\* gh_post_comment raised and ended the sweep
PostFailed(p) == pc[p] = "crashed" /\ posted[p] = "failed"

\* sweep q was started right after sweep p
Follows(q, p) ==
    /\ Len(started) >= 2
    /\ started[Len(started)] = q
    /\ started[Len(started) - 1] = p

\* the alerts two sweeps have in common
SameAlerts(p, q) ==
    {a \in {alerts[p][i] : i \in DOMAIN alerts[p]} :
        \E j \in DOMAIN alerts[q] : alerts[q][j] = a}

\* C27: when the report of a sweep reaches the commentary and posting steps the
\* store already holds the snapshot of the sweep, and the alert record is
\* written only after the posting step has passed. A sweep that the posting
\* step ended has saved its snapshot and archived nothing; the sweep started
\* after it compares against that snapshot, shares no alert with it, and has no
\* alert at all when it observes what the failed sweep observed
C27_SaveBeforePostArchiveAfter ==
    /\ \A p \in Procs : pc[p] \in Handed => Persisted(p)
    /\ \A p \in Procs : (pc[p] \in {"archive", "done"} \/ archived[p]) => posted[p] = "passed"
    /\ \A p \in Procs :
          PostFailed(p) =>
              /\ saves[p] = 1
              /\ ~archived[p]
              /\ started[Len(started)] = p => Persisted(p)
    /\ \A p \in Procs : \A q \in Procs \ {p} :
          (PostFailed(p) /\ Follows(q, p) /\ pc[q] \in Comparing \cup {"report"} \cup Handed) =>
              /\ previous[q] = current_snapshot[p]
              /\ SameAlerts(p, q) = {}
              /\ WalletsOf(current_snapshot[q]) = WalletsOf(current_snapshot[p])
                    => alerts[q] = <<>>

\* the posting step ended a sweep that had an alert; the sweep after it sees
\* the same balance, compares it against the snapshot the failed sweep saved,
\* raises nothing, and no alert record exists
C27_Witness ==
    \E p \in Procs : \E q \in Procs \ {p} :
        /\ PostFailed(p) /\ alerts[p] # <<>>
        /\ Follows(q, p) /\ pc[q] = "done"
        /\ previous[q] = current_snapshot[p]
        /\ WalletsOf(current_snapshot[q]) = WalletsOf(current_snapshot[p])
        /\ alerts[q] = <<>>
        /\ alert_store = <<>>

-----------------------------------------------------------------------------
(* Claims about sweeps that overlap, checked under SpecOverlap *)

\* the sweep has loaded its previous snapshot
HasLoaded(p) == pc[p] \in Comparing \cup {"report", "respond"}

\* two sweeps hold the same previous snapshot and neither has saved its own
BothRead(p, q) ==
    /\ p # q
    /\ pc[p] \in Comparing /\ pc[q] \in Comparing
    /\ saves[p] = 0 /\ saves[q] = 0
    /\ previous[p] = previous[q]

\* two sweeps have both saved, and neither compared against the snapshot of the
\* other
NeitherSawOther(p, q) ==
    /\ p # q
    /\ HasLoaded(p) /\ HasLoaded(q)
    /\ saves[p] = 1 /\ saves[q] = 1
    /\ previous[p] # current_snapshot[q]
    /\ previous[q] # current_snapshot[p]

\* C26: loading the previous snapshot and saving the current one are two steps.
\* Two sweeps hold the same previous snapshot before either saves, or have both
\* saved without either comparing against the other, only when a sweep was
\* started while another was running; as long as no sweep was, every sweep
\* between its load and its save compares against the snapshot persisted last
C26_LostCompareOnlyWhenOverlapped ==
    /\ \A p \in Procs : \A q \in Procs :
          (BothRead(p, q) \/ NeitherSawOther(p, q)) => overlapped
    /\ ~overlapped =>
          /\ load_previous_snapshot(store) = Ret(persisted)
          /\ \A p \in Procs : pc[p] \in Comparing => previous[p] = persisted

\* two overlapping sweeps have both saved a snapshot with a new balance, both
\* compared against the snapshot of the sweep before them, and the snapshot
\* of neither was the previous of the other
C26_Witness ==
    \E p \in Procs : \E q \in Procs :
        /\ NeitherSawOther(p, q)
        /\ overlapped
        /\ previous[p] = SeedSnapshot /\ previous[q] = SeedSnapshot
        /\ WalletsOf(current_snapshot[p]) # WalletsOf(SeedSnapshot)
        /\ WalletsOf(current_snapshot[q]) # WalletsOf(SeedSnapshot)
        /\ alerts[p] # <<>> /\ alerts[q] # <<>>

====
